---- MODULE Spec2Model ----
(***************************************************************************)
(* Model of slippage_analysis.py: compute_slippage (the greedy walk over   *)
(* the ask rows of an order book) and analyze_slippage (the sweep over the *)
(* order-size grid, the NaN mask and the guarded power-law fit).           *)
(*                                                                         *)
(* Prices, volumes and order sizes are integers; a value the code obtains  *)
(* by a float division is kept as an exact fraction [num, den] (den > 0),  *)
(* so float rounding is abstracted away.  np.nan is the record NaN.        *)
(***************************************************************************)
EXTENDS Integers, Sequences, FiniteSets

(* ------------------------------ bounds -------------------------------- *)
MaxLevels == 2
MaxPrice == 2
MaxVol == 2
MaxSize == 3
MaxBid == 1

(* ------------------------- program constants -------------------------- *)
GridStart == 10
GridStop == 300
GridStep == 10
MinPoints == 3

(* ------------------------------ inputs -------------------------------- *)
Prices == 1..MaxPrice
\* a volume column is not validated by the code: one negative value is kept
Volumes == {-1} \cup (0..MaxVol)
Sizes == 1..MaxSize
Bids == 1..MaxBid

Rows(vols) == [price : Prices, volume : vols]
BooksOver(vols, lo) == UNION {[1..n -> Rows(vols)] : n \in lo..MaxLevels}

\* direct callers of compute_slippage: any frame, the empty one included
Books == BooksOver(Volumes, 0)
\* frames read from a LOB file: at least one row, volumes on the grid's scale
LobVolumes == {GridStep * v : v \in Volumes}
LobBooks == BooksOver(LobVolumes, 1)

(* --------------------------- float values ----------------------------- *)
Frac(n, d) == [num |-> n, den |-> d]
FracLeq(a, b) == a.num * b.den <= b.num * a.den
FracEq(a, b) == a.num * b.den = b.num * a.den

NaN == [nan |-> TRUE, num |-> 0, den |-> 1]
NoValue == [nan |-> TRUE, num |-> 1, den |-> 1]
isnan(y) == y.nan

\* mid_price = (ask_price_1[0] + bid_price_1[0]) / 2
MidOf(ask, bid) == Frac(ask + bid, 2)
Mids == {MidOf(a, b) : a \in Prices, b \in Bids}

(* -------------------------- compute_slippage -------------------------- *)
Min(a, b) == IF a <= b THEN a ELSE b
Max(a, b) == IF a >= b THEN a ELSE b

QtyMax(rem, volume) == Max(rem, volume)
QtyWholeLevel(rem, volume) == volume
\* qty = min(remaining, volume)
Qty(rem, volume) == Min(rem, volume)

RowStepCostByVolume(cost, rem, row) ==
    LET qty == Qty(rem, row.volume)
    IN [total_cost |-> cost + row.volume * row.price,
        remaining |-> rem - qty,
        qty |-> qty]
\* one pass of the loop body: the new total_cost and remaining, and the fill
RowStep(cost, rem, row) ==
    LET qty == Qty(rem, row.volume)
    IN [total_cost |-> cost + qty * row.price,
        remaining |-> rem - qty,
        qty |-> qty]

BreakNever(rem) == FALSE
\* if remaining <= 0: break
BreakNow(rem) == rem <= 0

UnfilledWrongSign(rem) == rem < 0
\* if remaining > 0: return np.nan
Unfilled(rem) == rem > 0

SlippageFlipped(cost, size, mid) ==
    [nan |-> FALSE, num |-> mid.num * size - cost * mid.den, den |-> size * mid.den]
\* avg_price = total_cost / x ; return avg_price - mid_price
Slippage(cost, size, mid) ==
    [nan |-> FALSE, num |-> cost * mid.den - mid.num * size, den |-> size * mid.den]

\* the for loop from row k on, with its break
RECURSIVE Walk(_, _, _, _)
Walk(book, k, cost, rem) ==
    IF k > Len(book)
    THEN [total_cost |-> cost, remaining |-> rem, visited |-> k - 1]
    ELSE LET s == RowStep(cost, rem, book[k])
         IN IF BreakNow(s.remaining)
            THEN [total_cost |-> s.total_cost, remaining |-> s.remaining, visited |-> k]
            ELSE Walk(book, k + 1, s.total_cost, s.remaining)

compute_slippage(book, size, mid) ==
    LET w == Walk(book, 1, 0, size)
    IN IF Unfilled(w.remaining) THEN NaN ELSE Slippage(w.total_cost, size, mid)

(* ------------------------- analyze_slippage --------------------------- *)
\* X = np.arange(10, 300, 10)
NumSizes == (GridStop - GridStart + GridStep - 1) \div GridStep
X == [k \in 1..NumSizes |-> GridStart + (k - 1) * GridStep]

RECURSIVE SelectFrom(_, _, _)
SelectFrom(a, m, k) ==
    IF k > Len(a) \/ k > Len(m) THEN <<>>
    ELSE IF m[k] THEN <<a[k]>> \o SelectFrom(a, m, k + 1)
         ELSE SelectFrom(a, m, k + 1)

\* a[mask] for a boolean mask
Select(a, m) == SelectFrom(a, m, 1)

\* mask = ~np.isnan(Y)
MaskOf(ys) == [k \in 1..Len(ys) |-> ~isnan(ys[k])]

TooFewOffByOne(n) == n < MinPoints - 1
\* if len(Y_fit) < 3
TooFew(n) == n < MinPoints

(* ------------------------------ state --------------------------------- *)
VARIABLES
    order_book,   \* the frame of (ask_price_1, ask_volume_1) rows
    book0,        \* history: the frame as first given
    mid_price,    \* the mid price of the run
    bid,          \* bid_price_1 of the first row of the file
    pc,           \* position in the running function
    x,            \* compute_slippage: the order size of the call
    total_cost,   \* compute_slippage: total_cost
    remaining,    \* compute_slippage: remaining
    i,            \* compute_slippage: rows visited by the loop so far
    qtys,         \* history: the qty of every visited row
    ret,          \* compute_slippage: the value last returned
    again,        \* history: the running call is not the first on this frame
    calls,        \* history: the sizes analyze_slippage passed, in order
    Y,            \* analyze_slippage: Y
    X_fit,        \* analyze_slippage: X_fit
    Y_fit,        \* analyze_slippage: Y_fit
    outcome       \* analyze_slippage: how the run ended

vars == <<order_book, book0, mid_price, bid, pc, x, total_cost, remaining, i,
          qtys, ret, again, calls, Y, X_fit, Y_fit, outcome>>

walkVars == <<x, total_cost, remaining, i, qtys, ret, again>>
sweepVars == <<calls, Y, X_fit, Y_fit, outcome, bid>>

(* ---------------- compute_slippage, statement by statement ------------- *)
\* a caller of compute_slippage holding one frame and one mid price
InitCalls ==
    /\ order_book \in Books
    /\ book0 = order_book
    /\ mid_price \in Mids
    /\ bid = 0
    /\ pc = "idle"
    /\ x = 0
    /\ total_cost = 0
    /\ remaining = 0
    /\ i = 0
    /\ qtys = <<>>
    /\ ret = NoValue
    /\ again = FALSE
    /\ calls = <<>>
    /\ Y = <<>>
    /\ X_fit = <<>>
    /\ Y_fit = <<>>
    /\ outcome = "none"

\* compute_slippage(order_book, size, mid_price): total_cost = 0; remaining = x
Call(size) ==
    /\ pc = "idle"
    /\ x' = size
    /\ total_cost' = 0
    /\ remaining' = size
    /\ i' = 0
    /\ qtys' = <<>>
    /\ ret' = NoValue
    /\ again' = (again \/ ret # NoValue)
    /\ pc' = "loop"
    /\ UNCHANGED <<order_book, book0, mid_price, sweepVars>>

LoopIterConsuming ==
    /\ pc = "loop"
    /\ i < Len(order_book)
    /\ LET row == order_book[i + 1]
           s == RowStep(total_cost, remaining, row)
       IN /\ total_cost' = s.total_cost
          /\ remaining' = s.remaining
          /\ qtys' = Append(qtys, s.qty)
          /\ order_book' = [order_book EXCEPT ![i + 1].volume = row.volume - s.qty]
          /\ pc' = IF BreakNow(s.remaining) THEN "after" ELSE "loop"
    /\ i' = i + 1
    /\ UNCHANGED <<book0, mid_price, x, ret, again, sweepVars>>

\* one iteration of: for _, row in order_book.iterrows()
LoopIter ==
    /\ pc = "loop"
    /\ i < Len(order_book)
    /\ LET row == order_book[i + 1]
           s == RowStep(total_cost, remaining, row)
       IN /\ total_cost' = s.total_cost
          /\ remaining' = s.remaining
          /\ qtys' = Append(qtys, s.qty)
          /\ pc' = IF BreakNow(s.remaining) THEN "after" ELSE "loop"
    /\ i' = i + 1
    /\ UNCHANGED <<order_book, book0, mid_price, x, ret, again, sweepVars>>

\* iterrows() is exhausted
LoopEnd ==
    /\ pc = "loop"
    /\ i >= Len(order_book)
    /\ pc' = "after"
    /\ UNCHANGED <<order_book, book0, mid_price, walkVars, sweepVars>>

\* the two return statements
Return ==
    /\ pc = "after"
    /\ ret' = IF Unfilled(remaining) THEN NaN ELSE Slippage(total_cost, x, mid_price)
    /\ pc' = "idle"
    /\ UNCHANGED <<order_book, book0, mid_price, x, total_cost, remaining, i, qtys,
                   again, sweepVars>>

NextCalls ==
    \/ \E size \in Sizes : Call(size)
    \/ LoopIter
    \/ LoopEnd
    \/ Return

SpecCalls == InitCalls /\ [][NextCalls]_vars

(* --------------------------- analyze_slippage -------------------------- *)
Init ==
    /\ order_book \in LobBooks
    /\ book0 = order_book
    /\ bid \in Bids
    /\ mid_price = Frac(0, 1)
    /\ pc = "read"
    /\ x = 0
    /\ total_cost = 0
    /\ remaining = 0
    /\ i = 0
    /\ qtys = <<>>
    /\ ret = NoValue
    /\ again = FALSE
    /\ calls = <<>>
    /\ Y = <<>>
    /\ X_fit = <<>>
    /\ Y_fit = <<>>
    /\ outcome = "none"

\* read_csv, the column selection and mid_price
ReadBook ==
    /\ pc = "read"
    /\ mid_price' = MidOf(order_book[1].price, bid)
    /\ pc' = "sweep"
    /\ UNCHANGED <<order_book, book0, walkVars, sweepVars>>

SweepStepAbort ==
    /\ pc = "sweep"
    /\ Len(Y) < NumSizes
    /\ LET size == X[Len(Y) + 1]
           y == compute_slippage(order_book, size, mid_price)
       IN /\ calls' = Append(calls, size)
          /\ Y' = Append(Y, y)
          /\ pc' = IF Len(Y) + 1 = NumSizes \/ isnan(y) THEN "mask" ELSE "sweep"
    /\ UNCHANGED <<order_book, book0, mid_price, walkVars, X_fit, Y_fit, outcome, bid>>

\* one element of: Y = np.array([compute_slippage(order_book, x, mid_price) for x in X])
SweepStep ==
    /\ pc = "sweep"
    /\ Len(Y) < NumSizes
    /\ LET size == X[Len(Y) + 1]
           y == compute_slippage(order_book, size, mid_price)
       IN /\ calls' = Append(calls, size)
          /\ Y' = Append(Y, y)
          /\ pc' = IF Len(Y) + 1 = NumSizes THEN "mask" ELSE "sweep"
    /\ UNCHANGED <<order_book, book0, mid_price, walkVars, X_fit, Y_fit, outcome, bid>>

\* mask = ~np.isnan(Y) ; X_fit, Y_fit = X[mask], Y[mask]
BuildMask ==
    /\ pc = "mask"
    /\ X_fit' = Select(X, MaskOf(Y))
    /\ Y_fit' = Select(Y, MaskOf(Y))
    /\ pc' = "check"
    /\ UNCHANGED <<order_book, book0, mid_price, walkVars, calls, Y, outcome, bid>>

NotEnoughFallsThrough ==
    /\ pc = "check"
    /\ TooFew(Len(Y_fit))
    /\ outcome' \in {"fitted", "raised"}
    /\ pc' = "done"
    /\ UNCHANGED <<order_book, book0, mid_price, walkVars, calls, Y, X_fit, Y_fit, bid>>

\* print("Not enough data points for fitting.") ; return
NotEnough ==
    /\ pc = "check"
    /\ TooFew(Len(Y_fit))
    /\ outcome' = "not_enough"
    /\ pc' = "done"
    /\ UNCHANGED <<order_book, book0, mid_price, walkVars, calls, Y, X_fit, Y_fit, bid>>

\* curve_fit returns popt; the plot is saved and the function returns
FitConverges ==
    /\ pc = "check"
    /\ ~TooFew(Len(Y_fit))
    /\ outcome' = "fitted"
    /\ pc' = "done"
    /\ UNCHANGED <<order_book, book0, mid_price, walkVars, calls, Y, X_fit, Y_fit, bid>>

\* curve_fit raises (no convergence); the exception leaves analyze_slippage
FitDiverges ==
    /\ pc = "check"
    /\ ~TooFew(Len(Y_fit))
    /\ outcome' = "raised"
    /\ pc' = "done"
    /\ UNCHANGED <<order_book, book0, mid_price, walkVars, calls, Y, X_fit, Y_fit, bid>>

Next ==
    \/ ReadBook
    \/ SweepStep
    \/ BuildMask
    \/ NotEnough
    \/ FitConverges
    \/ FitDiverges

Spec == Init /\ [][Next]_vars

(* ------------------------ vocabulary of the claims --------------------- *)
NonNegVolumes(book) == \A k \in 1..Len(book) : book[k].volume >= 0
PricesAscending(book) == \A k \in 1..(Len(book) - 1) : book[k].price <= book[k + 1].price

RECURSIVE SumOf(_, _)
\* a[1] + ... + a[k]
SumOf(a, k) == IF k = 0 THEN 0 ELSE SumOf(a, k - 1) + a[k]

VolumesOf(book) == [k \in 1..Len(book) |-> book[k].volume]
TotalVolume(book) == SumOf(VolumesOf(book), Len(book))

RECURSIVE RefFilled(_, _, _)
\* the reference fills of the first k levels, summed:
\* fill_k = min(volume_k, size - fills of the earlier levels)
RefFilled(book, size, k) ==
    IF k = 0 THEN 0
    ELSE LET before == RefFilled(book, size, k - 1)
         IN before + Min(book[k].volume, size - before)

RefFill(book, size, k) == RefFilled(book, size, k) - RefFilled(book, size, k - 1)

\* sum over every level of fill_k * price_k
RefCost(book, size) ==
    SumOf([k \in 1..Len(book) |-> RefFill(book, size, k) * book[k].price], Len(book))

\* (RefCost / size) - mid, as a fraction
RefSlippage(book, size, mid) ==
    Frac(RefCost(book, size) * mid.den - mid.num * size, size * mid.den)

InsertAt(book, p, row) == SubSeq(book, 1, p - 1) \o <<row>> \o SubSeq(book, p, Len(book))
RemoveAt(book, p) == SubSeq(book, 1, p - 1) \o SubSeq(book, p + 1, Len(book))

\* what may follow the levels a call has read: nothing, or any one level
Tails == {<<>>} \cup {<<row>> : row \in Rows(Volumes)}

\* a call of compute_slippage has returned ret for size x
Returned == pc = "idle" /\ ret # NoValue
Filled == Returned /\ ~isnan(ret)

\* the grid indices whose slippage is not the sentinel
ValidIdx == {k \in 1..Len(Y) : ~isnan(Y[k])}
FitAttempted == outcome \in {"fitted", "raised"}

(* ------------------------------- claims -------------------------------- *)

\* C1: with non-negative volumes whose sum is at least the order size (equality
\* included), compute_slippage returns a number, never the sentinel, equal to
\* (sum over all levels of fill_i * price_i) / order_size - mid_price for the
\* greedy fills fill_i = min(volume_i, order_size - earlier fills).
C1_FilledValue ==
    (Returned /\ NonNegVolumes(order_book) /\ TotalVolume(order_book) >= x)
        => /\ ~isnan(ret)
           /\ FracEq(ret, RefSlippage(order_book, x, mid_price))

\* a call that took all of level 1 and only a part of level 2
C1_Witness ==
    /\ Filled
    /\ NonNegVolumes(order_book)
    /\ Len(qtys) = 2
    /\ qtys[1] > 0
    /\ qtys[2] > 0
    /\ qtys[2] < order_book[2].volume

\* C2: with non-negative volumes whose sum is strictly less than the order size,
\* compute_slippage returns the sentinel NaN and never a number.
C2_UnfilledSentinel ==
    (Returned /\ NonNegVolumes(order_book) /\ TotalVolume(order_book) < x)
        => ret = NaN

\* a call that consumed some volume from every level and still ran short
C2_Witness ==
    /\ Returned
    /\ NonNegVolumes(order_book)
    /\ Len(order_book) = 2
    /\ TotalVolume(order_book) > 0
    /\ TotalVolume(order_book) < x
    /\ ret = NaN

\* C3 as stated: for a fixed frame (non-negative volumes) and mid price the
\* returned slippage is non-decreasing in the order size, for all sizes
\* 0 < x1 <= x2 <= total volume.
C3_MonotoneAnyOrder ==
    (Returned /\ NonNegVolumes(order_book) /\ x <= TotalVolume(order_book))
        => \A x1 \in 1..x :
              LET r1 == compute_slippage(order_book, x1, mid_price)
              IN ~isnan(r1) /\ ~isnan(ret) /\ FracLeq(r1, ret)

\* C3 as amended: the same, for frames whose prices do not decrease from one
\* level to the next.
C3_MonotoneAscending ==
    (Returned /\ NonNegVolumes(order_book) /\ PricesAscending(order_book)
              /\ x <= TotalVolume(order_book))
        => \A x1 \in 1..x :
              LET r1 == compute_slippage(order_book, x1, mid_price)
              IN ~isnan(r1) /\ ~isnan(ret) /\ FracLeq(r1, ret)

\* a filled call that reached a strictly dearer second level
C3_Witness ==
    /\ Filled
    /\ NonNegVolumes(order_book)
    /\ PricesAscending(order_book)
    /\ Len(qtys) = 2
    /\ order_book[1].price < order_book[2].price
    /\ qtys[1] > 0
    /\ qtys[2] > 0
    /\ ~FracLeq(ret, compute_slippage(order_book, 1, mid_price))

\* C4: no call of compute_slippage changes the frame it is given, and the value a
\* call returns is the one determined by the frame as first given, the order size
\* and the mid price, whatever calls ran before it.
C4_FrameAndDeterminism ==
    /\ order_book = book0
    /\ Returned => ret = compute_slippage(book0, x, mid_price)

\* a later call on the same frame has walked two levels and returned a number
C4_Witness ==
    /\ Filled
    /\ again
    /\ i = 2
    /\ qtys[1] > 0

C6_SweepAndMask ==
    /\ calls = SubSeq(X, 1, Len(Y))
    /\ \A k \in 1..Len(Y) : Y[k] = compute_slippage(order_book, X[k], mid_price)
    /\ pc = "sweep" => Len(Y) < NumSizes
    /\ pc \in {"mask", "check", "done"} => calls = X
    /\ pc \in {"check", "done"} =>
          /\ Len(X_fit) = Cardinality(ValidIdx)
          /\ Len(Y_fit) = Cardinality(ValidIdx)
          /\ \A k \in ValidIdx :
                LET j == Cardinality({m \in ValidIdx : m <= k})
                IN X_fit[j] = X[k] /\ Y_fit[j] = Y[k]

\* the sweep went on to the last size after a NaN, and some samples were kept
C6_Witness ==
    /\ pc = "check"
    /\ Len(Y) = NumSizes
    /\ isnan(Y[3])
    /\ Len(Y_fit) = 2
    /\ X_fit = <<X[1], X[2]>>

\* C7: once remaining has reached 0 the loop reads no further level, so the value
\* of a filled call depends only on the levels it visited: it is the value of the
\* visited levels alone, and of the visited levels followed by any other level.
C7_ShortCircuit ==
    /\ (pc = "loop" /\ i > 0) => remaining > 0
    /\ Filled =>
          \A tail \in Tails :
             compute_slippage(SubSeq(order_book, 1, i) \o tail, x, mid_price) = ret

\* a call filled at level 1 of a frame that has a second level
C7_Witness ==
    /\ Filled
    /\ i = 1
    /\ Len(order_book) = 2
    /\ order_book[2].volume # 0

\* C8: a level of volume 0 adds no fill and no cost: putting one in at a position
\* the walk reaches before the order is filled, or taking one out, leaves the
\* returned value the same, a number or the sentinel.
C8_ZeroVolumeLevel ==
    Returned =>
        LET reach == IF isnan(ret) THEN Len(order_book) + 1 ELSE i
        IN /\ \A p \in 1..reach : \A price \in Prices :
                 compute_slippage(InsertAt(order_book, p, [price |-> price, volume |-> 0]),
                                  x, mid_price) = ret
           /\ \A p \in 1..Len(order_book) :
                 (p <= reach /\ order_book[p].volume = 0)
                    => compute_slippage(RemoveAt(order_book, p), x, mid_price) = ret

\* a call that passed an empty level and was filled at the next one
C8_Witness ==
    /\ Filled
    /\ i = 2
    /\ order_book[1].volume = 0
    /\ qtys = <<0, x>>

\* C9: with non-negative volumes, after every iteration of the walk
\* 0 <= remaining <= order size, every qty lies between 0 and its level's volume,
\* the qtys add up to order size - remaining, total_cost is the sum of qty * price
\* over the visited levels, and the loop is left early only at remaining = 0.
C9_LoopInvariant ==
    (x > 0 /\ NonNegVolumes(order_book)) =>
        /\ 0 <= remaining
        /\ remaining <= x
        /\ Len(qtys) = i
        /\ i <= Len(order_book)
        /\ \A k \in 1..i : 0 <= qtys[k] /\ qtys[k] <= order_book[k].volume
        /\ SumOf(qtys, i) = x - remaining
        /\ total_cost = SumOf([k \in 1..i |-> qtys[k] * order_book[k].price], i)
        /\ (pc = "after" /\ i < Len(order_book)) => remaining = 0
        /\ (pc = "loop" /\ i > 0) => remaining > 0

\* the walk stands between two levels, the first one taken whole
C9_Witness ==
    /\ pc = "loop"
    /\ NonNegVolumes(order_book)
    /\ i = 1
    /\ qtys[1] = order_book[1].volume
    /\ qtys[1] > 0
    /\ remaining > 0
    /\ remaining < x

\* C10: with non-negative volumes, a size that gets the sentinel is followed only
\* by sizes that get the sentinel, and the sentinel is returned exactly for the
\* sizes above the total volume; so the valid samples are a prefix of the grid
\* and a fit is attempted only when sizes 10, 20 and 30 can all be filled.
C10_ValidPrefix ==
    NonNegVolumes(order_book) =>
        /\ \A k \in 1..Len(Y) : isnan(Y[k]) <=> TotalVolume(order_book) < X[k]
        /\ \A k1 \in 1..Len(Y) : \A k2 \in k1..Len(Y) : isnan(Y[k1]) => isnan(Y[k2])
        /\ pc \in {"check", "done"} =>
              /\ X_fit = SubSeq(X, 1, Len(X_fit))
              /\ Y_fit = SubSeq(Y, 1, Len(X_fit))
              /\ ValidIdx = 1..Len(X_fit)
        /\ FitAttempted =>
              \A k \in 1..MinPoints :
                 ~isnan(Y[k]) /\ TotalVolume(order_book) >= X[k]

\* a fit on exactly the first three sizes of the grid
C10_Witness ==
    /\ NonNegVolumes(order_book)
    /\ outcome = "fitted"
    /\ X_fit = <<X[1], X[2], X[3]>>
    /\ isnan(Y[4])

====
